---- MODULE Spec2Model ----
(***************************************************************************)
(* A model of bmi_calculator.py: the BMICalculator class (float parsing,   *)
(* validation, BMI arithmetic, classification, the SQLite record table),   *)
(* the Tk front end's handlers and the command-line loop.                  *)
(*                                                                         *)
(* Numbers.  A Python float is modelled as a record [k, v]:                *)
(*   k = "num": the finite value v / Scale (a fixed-point decimal),        *)
(*   k = "nan": not-a-number, k = "inf": v = 1 for +inf, -1 for -inf.      *)
(* Entry texts are sequences of one-character strings, so that float(),    *)
(* str.strip() and SQLite's REAL column affinity are computed from the     *)
(* characters.  The alphabet has no exponent letter: "1e5"-style literals  *)
(* and fractions longer than two digits are outside the model.             *)
(***************************************************************************)
EXTENDS Integers, Sequences, FiniteSets, TLC

\* ------------------------------------------------------------------ bounds
\* The most rows the table holds before the model stops saving.
MaxRecords == 2
\* The last second the wall clock reaches.
MaxClock == 1

RECURSIVE Pow10(_)
Pow10(n) == IF n = 0 THEN 1 ELSE 10 * Pow10(n - 1)

\* The ndigits argument of round(bmi, 2).
RoundDigits == 2

\* Floats are fixed-point numbers with the resolution round() leaves, so a
\* rounded BMI is represented exactly: the finite float x is the integer
\* x * Scale.  Entry texts carry at most RoundDigits digits after the point.
Scale == Pow10(RoundDigits)

\* --------------------------------------------------------- float values
Num(v) == [k |-> "num", v |-> v]
NaN == [k |-> "nan", v |-> 0]
Inf(sign) == [k |-> "inf", v |-> sign]
\* The outcome of float(x) raising ValueError.
ValueError == [k |-> "ValueError", v |-> 0]
\* Python's None.
None == [k |-> "None", v |-> 0]

IsFloat(x) == x.k \in {"num", "nan", "inf"}

\* x <= 0 on floats (every comparison with NaN is false).
FloatLeZero(x) ==
    CASE x.k = "num" -> x.v <= 0
      [] x.k = "inf" -> x.v < 0
      [] OTHER -> FALSE

\* x > c / Scale on floats, c a fixed-point literal.
FloatGt(x, c) ==
    CASE x.k = "num" -> x.v > c
      [] x.k = "inf" -> x.v > 0
      [] OTHER -> FALSE

\* x < c / Scale on floats.
FloatLt(x, c) ==
    CASE x.k = "num" -> x.v < c
      [] x.k = "inf" -> x.v < 0
      [] OTHER -> FALSE

\* x >= c / Scale on floats.
FloatGe(x, c) ==
    CASE x.k = "num" -> x.v >= c
      [] x.k = "inf" -> x.v > 0
      [] OTHER -> FALSE

\* ------------------------------------------------------------- str.strip
RECURSIVE lstrip(_)
lstrip(s) == IF s # <<>> /\ Head(s) = " " THEN lstrip(Tail(s)) ELSE s

RECURSIVE rstrip(_)
rstrip(s) ==
    IF s # <<>> /\ s[Len(s)] = " " THEN rstrip(SubSeq(s, 1, Len(s) - 1)) ELSE s

strip(s) == rstrip(lstrip(s))

\* ----------------------------------------------------------------- float()
DigitChars == <<"0", "1", "2", "3", "4", "5", "6", "7", "8", "9">>

IsDigit(c) == \E i \in 1..10 : DigitChars[i] = c

DigitVal(c) == (CHOOSE i \in 1..10 : DigitChars[i] = c) - 1

\* digit (["_"] digit)* : Python allows single underscores between digits.
RECURSIVE IsDigitPart(_)
IsDigitPart(s) ==
    /\ s # <<>>
    /\ IsDigit(Head(s))
    /\ \/ Len(s) = 1
       \/ IsDigitPart(Tail(s))
       \/ Len(s) >= 3 /\ s[2] = "_" /\ IsDigitPart(Tail(Tail(s)))

\* digit+ : the same without underscores, as SQLite reads a numeric text.
RECURSIVE IsPlainDigits(_)
IsPlainDigits(s) ==
    /\ s # <<>>
    /\ IsDigit(Head(s))
    /\ (Len(s) = 1 \/ IsPlainDigits(Tail(s)))

RECURSIVE DropUnderscores(_)
DropUnderscores(s) ==
    IF s = <<>> THEN <<>>
    ELSE IF Head(s) = "_" THEN DropUnderscores(Tail(s))
    ELSE <<Head(s)>> \o DropUnderscores(Tail(s))

\* The integer a digit string denotes.
RECURSIVE IntOf(_)
IntOf(s) ==
    IF s = <<>> THEN 0 ELSE 10 * IntOf(SubSeq(s, 1, Len(s) - 1)) + DigitVal(s[Len(s)])

\* The position of the first "." of s, or 0.
DotAt(s) ==
    IF \E i \in 1..Len(s) : s[i] = "."
    THEN CHOOSE i \in 1..Len(s) : s[i] = "." /\ \A j \in 1..(i - 1) : s[j] # "."
    ELSE 0

IntPart(s) == IF DotAt(s) = 0 THEN s ELSE SubSeq(s, 1, DotAt(s) - 1)

FracPart(s) == IF DotAt(s) = 0 THEN <<>> ELSE SubSeq(s, DotAt(s) + 1, Len(s))

\* A run of digits, with single underscores between them when allowed.
IsDigits(s, underscores) == IF underscores THEN IsDigitPart(s) ELSE IsPlainDigits(s)

\* An unsigned decimal literal: digits, digits "." [digits] or "." digits.
IsDecimal(s, underscores) ==
    /\ s # <<>>
    /\ IntPart(s) = <<>> \/ IsDigits(IntPart(s), underscores)
    /\ FracPart(s) = <<>> \/ IsDigits(FracPart(s), underscores)
    /\ IntPart(s) # <<>> \/ FracPart(s) # <<>>

\* The fixed-point value of an unsigned decimal literal without underscores
\* (at most RoundDigits digits after the point).
DecimalValue(s) ==
    LET f == FracPart(s)
    IN  IntOf(IntPart(s)) * Scale + IntOf(f) * Pow10(RoundDigits - Len(f))

\* float(text): surrounding blanks ignored, an optional sign, then "nan",
\* "inf" or a decimal literal; anything else raises ValueError.
ParseFloat(s) ==
    LET t == strip(s)
        neg == t # <<>> /\ Head(t) = "-"
        body == IF neg THEN Tail(t) ELSE t
        sign == IF neg THEN -1 ELSE 1
    IN  IF body = <<"n", "a", "n">> THEN NaN
        ELSE IF body = <<"i", "n", "f">> THEN Inf(sign)
        ELSE IF IsDecimal(body, TRUE)
        THEN Num(sign * DecimalValue(DropUnderscores(body)))
        ELSE ValueError

\* Whether SQLite reads a text as a number: blanks around, a sign, digits
\* with an optional point; no underscores, no "nan", no "inf".
LooksNumeric(s) ==
    LET t == strip(s)
        body == IF t # <<>> /\ Head(t) = "-" THEN Tail(t) ELSE t
    IN  IsDecimal(body, FALSE)

\* ------------------------------------------------------------ inputs
\* The weight texts the function-level specification draws from.
WeightTexts ==
    {<<"7", "0">>, <<"5", "0">>, <<"7", "4">>, <<"1", "0", "0">>,
     <<"1", "2", "0">>, <<"3", "0", "0">>,
     <<"3", "0", "0", ".", "0", "1">>, <<"4", "0", "0">>, <<"0">>,
     <<"-", "0">>, <<"-", "5">>, <<>>, <<"a", "b", "c">>, <<"n", "a", "n">>,
     <<"i", "n", "f">>, <<"-", "i", "n", "f">>, <<"1", "_", "0">>,
     <<"1", "_", "_", "0">>, <<"_", "1">>, <<" ", "7", "0", " ">>,
     <<"7", " ", "0">>, <<"0", ".", "0", "1">>, <<".", "5">>,
     <<"5", ".">>, <<".">>, <<"-">>, <<"1", ".", "2", ".", "3">>}

\* The height texts the function-level specification draws from.
HeightTexts ==
    {<<"1", ".", "7", "5">>, <<"1", ".", "8">>, <<"1", ".", "8", "0">>,
     <<"2">>, <<"2", ".", "5">>, <<"2", ".", "5", "1">>, <<"3">>,
     <<"0">>, <<"0", ".", "0">>, <<"-", "1", ".", "8">>, <<"n", "a", "n">>,
     <<"i", "n", "f">>, <<"x">>, <<>>, <<"0", ".", "0", "1">>,
     <<" ", "2">>}


\* The texts typed into the window and at the prompts.  db_ok says whether
\* the environment lets SQLite run the statements of the handler (a locked
\* or unwritable file makes them raise sqlite3.Error).
Usernames == {<<>>, <<" ", "a">>}
GuiWeights == {<<"7", "0">>, <<"0">>, <<"4", "0", "0">>, <<"n", "a", "n">>, <<"x">>}
GuiHeights == {<<"1", ".", "7", "5">>, <<"0">>, <<"3">>}
CliWeights == {<<"7", "0">>, <<"4", "0", "0">>, <<"0">>, <<"n", "a", "n">>, <<"x">>}
CliHeights == {<<"1", ".", "7", "5">>, <<"3">>, <<"0">>}
Answers == {"y", "n"}

\* The (username, weight, height) texts of the sessions that also browse
\* the History and Statistics tabs.
FewInputs ==
    {<<<<"a">>, <<"7", "0">>, <<"1", ".", "7", "5">>>>,
     <<<<" ", "b">>, <<"1", "_", "0">>, <<"1", ".", "8">>>>}

\* Every text the model hands to float(), to strip() or to SQLite.
Typed ==
    WeightTexts \cup HeightTexts \cup Usernames \cup GuiWeights \cup GuiHeights
        \cup CliWeights \cup CliHeights \cup {in[i] : in \in FewInputs, i \in 1..3}
Texts == Typed \cup {strip(s) : s \in Typed}

\* ParseFloat and LooksNumeric tabulated over Texts (each text is parsed
\* once, not at every step).
ParsedFloat == [s \in Texts |-> ParseFloat(s)]
NumericLooking == [s \in Texts |-> LooksNumeric(s)]
Stripped == [s \in Typed |-> strip(s)]

\* A Python object handed to the calculator: a str or a float.
Str(s) == [ty |-> "str", s |-> s, x |-> None]
Float(x) == [ty |-> "float", s |-> <<>>, x |-> x]

\* The builtin float(o).
float(o) == IF o.ty = "float" THEN o.x ELSE ParsedFloat[o.s]

\* --------------------------------------------------------------- round()
\* n / d rounded to the nearest integer, ties to even (n >= 0, d > 0).
RoundHalfEven(n, d) ==
    LET q == n \div d
        r == n % d
    IN  IF 2 * r > d \/ (2 * r = d /\ q % 2 = 1) THEN q + 1 ELSE q

Abs(n) == IF n < 0 THEN -n ELSE n

Sgn(n) == IF n < 0 THEN -1 ELSE 1

\* RoundedQuotient with the quotient cut after two decimals, not rounded.
TruncatedQuotient(w, h) ==
    Num(Sgn(w) * ((Pow10(RoundDigits) * Abs(w) * Scale) \div (h * h)))

\* round(w / h ** 2, 2) for finite w and finite non-zero h.
RoundedQuotient(w, h) ==
    Num(Sgn(w) * RoundHalfEven(Pow10(RoundDigits) * Abs(w) * Scale, h * h))

\* ------------------------------------------------------ BMICalculator
\* calculate_bmi: float(weight) / float(height) ** 2 rounded to 2 places;
\* ValueError (from float) and ZeroDivisionError give None.
calculate_bmi(weight, height) ==
    LET w == float(weight)
        h == float(height)
    IN  IF w = ValueError \/ h = ValueError THEN None
        ELSE IF h.k = "num" /\ h.v = 0 THEN None
        ELSE IF w.k = "nan" \/ h.k = "nan" THEN NaN
        ELSE IF w.k = "inf" /\ h.k = "inf" THEN NaN
        ELSE IF w.k = "inf" THEN Inf(w.v)
        ELSE IF h.k = "inf" THEN Num(0)
        ELSE RoundedQuotient(w.v, h.v)

\* The thresholds of classify_bmi, in tenths.
UnderweightBelow == 185
NormalBelow == 250
OverweightBelow == 300

Tenths(n) == n * (Scale \div 10)

\* classify_bmi with each threshold counted in the category below it.
classify_bmi_inclusive(b) ==
    IF ~FloatGt(b, Tenths(UnderweightBelow)) /\ b.k # "nan" THEN "Underweight"
    ELSE IF ~FloatGt(b, Tenths(NormalBelow)) /\ b.k # "nan" THEN "Normal weight"
    ELSE IF ~FloatGt(b, Tenths(OverweightBelow)) /\ b.k # "nan" THEN "Overweight"
    ELSE "Obese"

classify_bmi(b) ==
    IF FloatLt(b, Tenths(UnderweightBelow)) THEN "Underweight"
    ELSE IF FloatGe(b, Tenths(UnderweightBelow)) /\ FloatLt(b, Tenths(NormalBelow))
         THEN "Normal weight"
    ELSE IF FloatGe(b, Tenths(NormalBelow)) /\ FloatLt(b, Tenths(OverweightBelow))
         THEN "Overweight"
    ELSE "Obese"

\* The upper limits of validate_input: kilograms, and tenths of a metre.
MaxWeightKg == 300
MaxHeightTenths == 25

MsgPositive == "Weight and height must be positive numbers"
MsgWeightHigh == "Weight seems too high. Please check your input."
MsgHeightHigh == "Height seems too high. Please check your input."
MsgValid == "Valid input"
MsgNotNumbers == "Please enter valid numbers for weight and height"

\* validate_input without the check that both numbers are positive.
validate_input_any_sign(weight, height) ==
    LET weight_float == float(weight)
        height_float == float(height)
    IN  IF weight_float = ValueError \/ height_float = ValueError
        THEN <<FALSE, MsgNotNumbers>>
        ELSE IF FloatGt(weight_float, MaxWeightKg * Scale)
        THEN <<FALSE, MsgWeightHigh>>
        ELSE IF FloatGt(height_float, Tenths(MaxHeightTenths))
        THEN <<FALSE, MsgHeightHigh>>
        ELSE <<TRUE, MsgValid>>

\* validate_input: the pair (is_valid, message).
validate_input(weight, height) ==
    LET weight_float == float(weight)
        height_float == float(height)
    IN  IF weight_float = ValueError \/ height_float = ValueError
        THEN <<FALSE, MsgNotNumbers>>
        ELSE IF FloatLeZero(weight_float) \/ FloatLeZero(height_float)
        THEN <<FALSE, MsgPositive>>
        ELSE IF FloatGt(weight_float, MaxWeightKg * Scale)
        THEN <<FALSE, MsgWeightHigh>>
        ELSE IF FloatGt(height_float, Tenths(MaxHeightTenths))
        THEN <<FALSE, MsgHeightHigh>>
        ELSE <<TRUE, MsgValid>>

\* --------------------------------------------------------- SQLite table
\* A value bound to a column: NULL, a REAL or a TEXT.
Null == [t |-> "null", x |-> None, s |-> <<>>]
RealCell(x) == [t |-> "real", x |-> x, s |-> <<>>]
TextCell(s) == [t |-> "text", x |-> None, s |-> s]

\* What a column declared REAL NOT NULL stores for a bound Python object:
\* a float as it is (NaN becomes NULL), a numeric-looking str converted to
\* REAL, any other str kept as TEXT.
RealAffinity(o) ==
    IF o.ty = "float"
    THEN IF o.x.k = "nan" \/ o.x = None THEN Null ELSE RealCell(o.x)
    ELSE IF NumericLooking[o.s] THEN RealCell(ParsedFloat[o.s]) ELSE TextCell(o.s)

\* NewRow with weight and height bound to each other's column.
NewRowSwapped(table, username, weight, height, b, cat, timestamp) ==
    [id |-> Len(table) + 1, username |-> username,
     weight |-> RealAffinity(height), height |-> RealAffinity(weight),
     bmi |-> RealAffinity(Float(b)), category |-> cat, timestamp |-> timestamp]

\* The row INSERT builds: id is AUTOINCREMENT, timestamp the wall clock.
NewRow(table, username, weight, height, b, cat, timestamp) ==
    [id |-> Len(table) + 1, username |-> username,
     weight |-> RealAffinity(weight), height |-> RealAffinity(height),
     bmi |-> RealAffinity(Float(b)), category |-> cat, timestamp |-> timestamp]

\* Whether the INSERT passes the NOT NULL constraints.
NotNullOk(row) == row.weight # Null /\ row.height # Null /\ row.bmi # Null

\* save_to_database returning True without conn.commit(): the row is lost.
save_without_commit(table, username, weight, height, b, cat, timestamp, io_ok) ==
    <<table, io_ok /\ NotNullOk(NewRow(table, username, weight, height, b, cat, timestamp))>>

\* save_to_database returning True from its except branch as well.
save_reporting_success(table, username, weight, height, b, cat, timestamp, io_ok) ==
    LET row == NewRow(table, username, weight, height, b, cat, timestamp)
    IN  IF io_ok /\ NotNullOk(row) THEN <<Append(table, row), TRUE>>
        ELSE <<table, TRUE>>

\* save_to_database with INSERT OR REPLACE on a fixed id: the new row
\* takes the place of the rows before it.
save_replacing(table, username, weight, height, b, cat, timestamp, io_ok) ==
    LET row == NewRow(<<>>, username, weight, height, b, cat, timestamp)
    IN  IF io_ok /\ NotNullOk(row) THEN <<<<row>>, TRUE>> ELSE <<table, FALSE>>

\* save_to_database: <<the table afterwards, the value returned>>.  io_ok
\* is FALSE when SQLite raises for a reason of the environment's (a locked
\* or unwritable file); a constraint failure raises sqlite3.IntegrityError.
\* Either way the except branch returns False and nothing is committed.
save_to_database(table, username, weight, height, b, cat, timestamp, io_ok) ==
    LET row == NewRow(table, username, weight, height, b, cat, timestamp)
    IN  IF io_ok /\ NotNullOk(row) THEN <<Append(table, row), TRUE>>
        ELSE <<table, FALSE>>

\* The ids of the rows WHERE username = ?.
RowsOf(table, username) ==
    {i \in 1..Len(table) : table[i].username = username}

\* ORDER BY timestamp DESC: every arrangement of the ids in which no row
\* comes before one with a later timestamp.  SQL leaves the order of rows
\* with equal timestamps open.
OrderedByTimestampDesc(table, ids) ==
    {o \in [1..Cardinality(ids) -> ids] :
        /\ \A i, j \in 1..Cardinality(ids) : i # j => o[i] # o[j]
        /\ \A i, j \in 1..Cardinality(ids) :
              i < j => table[o[i]].timestamp >= table[o[j]].timestamp}

\* The tuple SELECT timestamp, weight, height, bmi, category yields for a
\* row (id names the row it came from).
Selected(row) ==
    [id |-> row.id, timestamp |-> row.timestamp, weight |-> row.weight,
     height |-> row.height, bmi |-> row.bmi, category |-> row.category]

\* get_user_history: the lists fetchall() may return; [] when SQLite raises.
get_user_history(table, username, io_ok) ==
    IF io_ok
    THEN {[i \in 1..Len(o) |-> Selected(table[o[i]])] :
            o \in OrderedByTimestampDesc(table, RowsOf(table, username))}
    ELSE {<<>>}

\* get_all_users: SELECT DISTINCT username, as a set; empty when SQLite raises.
get_all_users(table, io_ok) ==
    IF io_ok THEN {table[i].username : i \in 1..Len(table)} ELSE {}

\* The timestamps datetime.now() may give: the clock does not run backwards
\* past a stored row.
ClockReadings(table) ==
    {t \in 0..MaxClock : \A i \in 1..Len(table) : table[i].timestamp <= t}


\* ------------------------------------------------------------------ state
VARIABLES
    table_exists,       \* whether bmi_database.db holds the bmi_records table
    store,              \* the rows of bmi_records, by id
    mode,               \* "gui", "cli" (at the weight prompt), "again"
                        \* (at the "Calculate another" prompt) or "exited"
    handler,            \* the handler, loop step or function that ran last
    username_entry,     \* the texts of the three Entry widgets
    weight_entry,
    height_entry,
    is_valid,           \* the locals of calculate_bmi_gui as it returned
    message,
    bmi,
    category,
    success,
    result_text,        \* the Result box
    messagebox,         \* the dialog the last handler showed: <<title, text>>
    user_combo,         \* the values of the History tab's combobox
    user_var,           \* its selection
    stats_user_combo,   \* the same for the Statistics tab
    stats_user_var,
    history_text,       \* the History box
    chart,              \* the figure embedded in the Statistics tab
    stdout              \* what the last handler or loop step printed

vars ==
    <<table_exists, store, mode, handler, username_entry, weight_entry, height_entry,
      is_valid, message, bmi, category, success, result_text, messagebox,
      user_combo, user_var, stats_user_combo, stats_user_var, history_text,
      chart, stdout>>

database == <<table_exists, store>>
entries == <<username_entry, weight_entry, height_entry>>
locals == <<is_valid, message, bmi, category, success>>
history_tab == <<user_combo, user_var, history_text>>
stats_tab == <<stats_user_combo, stats_user_var, chart>>

NoDialog == <<"", "">>
EmptyResult ==
    [shown |-> FALSE, username |-> <<>>, weight |-> <<>>, height |-> <<>>,
     bmi |-> None, category |-> "", saved |-> FALSE]
EmptyHistory == [shown |-> FALSE, username |-> <<>>, lines |-> <<>>]
NoChart == [shown |-> FALSE, username |-> <<>>, dates |-> <<>>, bmis |-> <<>>,
            weights |-> <<>>]

\* A line on stdout: a text, with the numbers the CLI prints after it.
Line(text) ==
    [text |-> text, weight |-> None, height |-> None, bmi |-> None, category |-> ""]
DatabaseError == Line("Database error")
\* print(f"Database error: {e}") in each except sqlite3.Error branch.
ErrorLine(ok) == IF ok THEN <<>> ELSE <<DatabaseError>>

\* The locals of calculate_bmi_gui before any is assigned.
LocalsUnset ==
    /\ is_valid' = FALSE
    /\ message' = ""
    /\ bmi' = None
    /\ category' = ""
    /\ success' = FALSE

\* What a combobox selection becomes on a refresh: users[0] when the list
\* is not empty (SELECT DISTINCT fixes no order), else it stays.
RefreshedSelection(users, selection) ==
    IF users # {} THEN users ELSE {selection}

\* init_database: CREATE TABLE IF NOT EXISTS; on sqlite3.Error the table
\* stays as it was.
init_database(exists, io_ok) == exists \/ io_ok

\* Whether a statement on bmi_records runs: SQLite raises when the
\* environment fails it or the table is not there.
Runs(exists, io_ok) == exists /\ io_ok

\* The widgets as BMICalculatorGUI.__init__ leaves them; refresh_users and
\* refresh_stats_users run at the end of the two tab setups.
Constructed(table, users_ok, stats_ok) ==
    /\ username_entry' = <<>>
    /\ weight_entry' = <<>>
    /\ height_entry' = <<>>
    /\ LocalsUnset
    /\ result_text' = EmptyResult
    /\ messagebox' = NoDialog
    /\ user_combo' = get_all_users(table, users_ok)
    /\ user_var' \in RefreshedSelection(get_all_users(table, users_ok), <<>>)
    /\ stats_user_combo' = get_all_users(table, stats_ok)
    /\ stats_user_var' \in RefreshedSelection(get_all_users(table, stats_ok), <<>>)
    /\ history_text' = EmptyHistory
    /\ chart' = NoChart

\* `python bmi_calculator.py`: BMICalculatorGUI builds its BMICalculator
\* and its tabs.
main_gui(init_ok, users_ok, stats_ok) ==
    LET exists == init_database(table_exists, init_ok)
    IN  /\ mode = "exited"
        /\ mode' = "gui"
        /\ handler' = "main"
        /\ table_exists' = exists
        /\ Constructed(store, Runs(exists, users_ok), Runs(exists, stats_ok))
        /\ stdout' = ErrorLine(init_ok) \o ErrorLine(Runs(exists, users_ok))
                        \o ErrorLine(Runs(exists, stats_ok))
        /\ UNCHANGED store

\* ----------------------------------------------------------- GUI handlers
\* The Calculate BMI button, after the user typed the three texts.
calculate_bmi_gui(username_text, weight_text, height_text, timestamp, save_ok, users_ok, stats_ok) ==
    LET username == Stripped[username_text]
        weight == Stripped[weight_text]
        height == Stripped[height_text]
        v == validate_input(Str(weight), Str(height))
        b == calculate_bmi(Str(weight), Str(height))
        cat == classify_bmi(b)
        saved == save_to_database(store, username, Str(weight), Str(height),
                                  b, cat, timestamp, Runs(table_exists, save_ok))
        users == get_all_users(saved[1], Runs(table_exists, users_ok))
        stats_users == get_all_users(saved[1], Runs(table_exists, stats_ok))
    IN  /\ mode = "gui"
        /\ Len(store) < MaxRecords
        /\ timestamp \in ClockReadings(store)
        /\ handler' = "calculate_bmi_gui"
        /\ username_entry' = username_text
        /\ weight_entry' = weight_text
        /\ height_entry' = height_text
        /\ UNCHANGED <<table_exists, mode, history_text, chart>>
        /\ IF username = <<>>
           THEN /\ messagebox' = <<"Input Error", "Please enter a username">>
                /\ LocalsUnset
                /\ stdout' = <<>>
                /\ UNCHANGED <<store, result_text, user_combo, user_var,
                               stats_user_combo, stats_user_var>>
           ELSE IF ~v[1]
           THEN /\ messagebox' = <<"Input Error", v[2]>>
                /\ is_valid' = v[1]
                /\ message' = v[2]
                /\ bmi' = None
                /\ category' = ""
                /\ success' = FALSE
                /\ stdout' = <<>>
                /\ UNCHANGED <<store, result_text, user_combo, user_var,
                               stats_user_combo, stats_user_var>>
           ELSE IF b = None
           THEN /\ messagebox' = <<"Calculation Error",
                                   "Error calculating BMI. Please check your inputs.">>
                /\ is_valid' = v[1]
                /\ message' = v[2]
                /\ bmi' = b
                /\ category' = ""
                /\ success' = FALSE
                /\ stdout' = <<>>
                /\ UNCHANGED <<store, result_text, user_combo, user_var,
                               stats_user_combo, stats_user_var>>
           ELSE /\ messagebox' = NoDialog
                /\ is_valid' = v[1]
                /\ message' = v[2]
                /\ bmi' = b
                /\ category' = cat
                /\ success' = saved[2]
                /\ store' = saved[1]
                /\ result_text' =
                       [shown |-> TRUE, username |-> username, weight |-> weight,
                        height |-> height, bmi |-> b, category |-> cat,
                        saved |-> saved[2]]
                /\ user_combo' = users
                /\ user_var' \in RefreshedSelection(users, user_var)
                /\ stats_user_combo' = stats_users
                /\ stats_user_var' \in RefreshedSelection(stats_users, stats_user_var)
                /\ stdout' = ErrorLine(saved[2])
                                \o ErrorLine(Runs(table_exists, users_ok))
                                \o ErrorLine(Runs(table_exists, stats_ok))

\* The Clear button.
clear_entries ==
    /\ mode = "gui"
    /\ handler' = "clear_entries"
    /\ username_entry' = <<>>
    /\ weight_entry' = <<>>
    /\ height_entry' = <<>>
    /\ result_text' = EmptyResult
    /\ messagebox' = NoDialog
    /\ stdout' = <<>>
    /\ UNCHANGED <<database, mode, locals, history_tab, stats_tab>>

\* The Refresh Users button.
refresh_users(io_ok) ==
    LET users == get_all_users(store, Runs(table_exists, io_ok))
    IN  /\ mode = "gui"
        /\ handler' = "refresh_users"
        /\ user_combo' = users
        /\ user_var' \in RefreshedSelection(users, user_var)
        /\ messagebox' = NoDialog
        /\ stdout' = ErrorLine(Runs(table_exists, io_ok))
        /\ UNCHANGED <<database, mode, entries, locals, result_text,
                       history_text, stats_tab>>


\* The Python object a fetched cell is: a float for REAL, a str for TEXT.
Fetched(cell) == IF cell.t = "real" THEN Float(cell.x) ELSE Str(cell.s)

\* strptime(timestamp, "%Y-%m-%d %H:%M:%S").strftime("%Y-%m-%d %H:%M"):
\* the seconds are dropped.
formatted_time(timestamp) == timestamp \div 60

\* The line load_user_history writes for a record.
HistoryLine(record) ==
    [id |-> record.id, time |-> formatted_time(record.timestamp),
     weight |-> record.weight, height |-> record.height, bmi |-> record.bmi,
     category |-> record.category]

\* The Load History button, with `username` the combobox selection: the
\* one left by the last refresh or one the user picked from the list.
load_user_history(username, io_ok) ==
    /\ mode = "gui"
    /\ username \in user_combo \cup {user_var}
    /\ handler' = "load_user_history"
    /\ user_var' = username
    /\ UNCHANGED <<database, mode, entries, locals, result_text, user_combo, stats_tab>>
    /\ IF username = <<>>
       THEN /\ messagebox' = <<"Selection Error", "Please select a user">>
            /\ stdout' = <<>>
            /\ UNCHANGED history_text
       ELSE \E records \in get_user_history(store, username, Runs(table_exists, io_ok)) :
               /\ messagebox' = NoDialog
               /\ stdout' = ErrorLine(Runs(table_exists, io_ok))
               /\ history_text' =
                      [shown |-> TRUE, username |-> username,
                       lines |-> [i \in 1..Len(records) |-> HistoryLine(records[i])]]

\* reversed(records).
Reversed(seq) == [i \in 1..Len(seq) |-> seq[Len(seq) + 1 - i]]

\* The Generate Chart button, with `username` the combobox selection.
generate_stats(username, io_ok) ==
    /\ mode = "gui"
    /\ username \in stats_user_combo \cup {stats_user_var}
    /\ handler' = "generate_stats"
    /\ stats_user_var' = username
    /\ UNCHANGED <<database, mode, entries, locals, result_text, history_tab,
                   stats_user_combo>>
    /\ IF username = <<>>
       THEN /\ messagebox' = <<"Selection Error", "Please select a user">>
            /\ stdout' = <<>>
            /\ UNCHANGED chart
       ELSE \E records \in get_user_history(store, username, Runs(table_exists, io_ok)) :
               /\ stdout' = ErrorLine(Runs(table_exists, io_ok))
               /\ IF records = <<>>
                  THEN /\ messagebox' = <<"No Data", "No records found for user">>
                       /\ UNCHANGED chart
                  ELSE LET chronological == Reversed(records)
                           n == Len(records)
                       IN  /\ messagebox' = NoDialog
                           /\ chart' =
                                  [shown |-> TRUE, username |-> username,
                                   dates |-> [i \in 1..n |-> chronological[i].timestamp],
                                   bmis |-> [i \in 1..n |-> chronological[i].bmi],
                                   weights |-> [i \in 1..n |->
                                       float(Fetched(chronological[i].weight))]]

\* The window is closed: root.mainloop() returns and the process ends.
mainloop_returns ==
    /\ mode = "gui"
    /\ mode' = "exited"
    /\ handler' = "mainloop"
    /\ messagebox' = NoDialog
    /\ stdout' = <<>>
    /\ UNCHANGED <<database, entries, locals, result_text, history_tab, stats_tab>>

\* ------------------------------------------------------ command-line loop
\* `python bmi_calculator.py --cli`: command_line_bmi prints its banner.
\* No window is built: the widget variables hold their blank values.
main_cli ==
    /\ mode = "exited"
    /\ mode' = "cli"
    /\ handler' = "main"
    /\ Constructed(<<>>, TRUE, TRUE)
    /\ stdout' = <<Line("=== BMI Calculator (Command Line) ===")>>
    /\ UNCHANGED database

ResultsLine(weight, height, b, cat) ==
    [text |-> "--- Results ---", weight |-> weight, height |-> height,
     bmi |-> b, category |-> cat]

\* One pass of the while loop up to the "Calculate another" prompt, with
\* the two answers typed at the prompts.  classify_bmi(None) raises
\* TypeError, which nothing catches: the process ends.
\* A BMICalculator is built (init_database runs) once both numbers are
\* read and positive.
command_line_bmi(weight_text, height_text, init_ok) ==
    LET weight == float(Str(weight_text))
        height == float(Str(height_text))
        b == calculate_bmi(Float(weight), Float(height))
    IN  /\ mode = "cli"
        /\ handler' = "command_line_bmi"
        /\ UNCHANGED <<store, entries, locals, result_text, messagebox,
                       history_tab, stats_tab>>
        /\ IF weight = ValueError \/ height = ValueError
           THEN /\ stdout' = <<Line("Error: Please enter valid numbers.")>>
                /\ mode' = "again"
                /\ UNCHANGED table_exists
           ELSE IF FloatLeZero(weight) \/ FloatLeZero(height)
           THEN /\ stdout' =
                       <<Line("Error: Weight and height must be positive numbers.")>>
                /\ mode' = "cli"
                /\ UNCHANGED table_exists
           ELSE /\ table_exists' = init_database(table_exists, init_ok)
                /\ IF b = None
                   THEN /\ stdout' = ErrorLine(init_ok) \o <<Line("TypeError")>>
                        /\ mode' = "exited"
                   ELSE /\ stdout' = ErrorLine(init_ok)
                               \o <<ResultsLine(weight, height, b, classify_bmi(b))>>
                        /\ mode' = "again"

\* The answer to "Calculate another BMI? (y/n): ", lower-cased.
calculate_another(again) ==
    /\ mode = "again"
    /\ handler' = "calculate_another"
    /\ IF again = "y"
       THEN mode' = "cli" /\ stdout' = <<>>
       ELSE mode' = "exited" /\ stdout' = <<Line("Goodbye!")>>
    /\ UNCHANGED <<database, entries, locals, result_text, messagebox, history_tab,
                   stats_tab>>


\* ------------------------------------------------------- the application
\* Before the program first runs: no database file.
Init ==
    /\ table_exists = FALSE
    /\ store = <<>>
    /\ mode = "exited"
    /\ handler = ""
    /\ username_entry = <<>>
    /\ weight_entry = <<>>
    /\ height_entry = <<>>
    /\ is_valid = FALSE
    /\ message = ""
    /\ bmi = None
    /\ category = ""
    /\ success = FALSE
    /\ result_text = EmptyResult
    /\ messagebox = NoDialog
    /\ user_combo = {}
    /\ user_var = <<>>
    /\ stats_user_combo = {}
    /\ stats_user_var = <<>>
    /\ history_text = EmptyHistory
    /\ chart = NoChart
    /\ stdout = <<>>

\* Calculations in the window and at the command line, over every kind of
\* input text.
Next ==
    \/ \E db_ok \in BOOLEAN : main_gui(db_ok, db_ok, db_ok)
    \/ \E u \in Usernames, w \in GuiWeights, h \in GuiHeights, t \in 0..MaxClock,
          db_ok \in BOOLEAN :
          calculate_bmi_gui(u, w, h, t, db_ok, db_ok, db_ok)
    \/ clear_entries
    \/ mainloop_returns
    \/ main_cli
    \/ \E w \in CliWeights, h \in CliHeights, db_ok \in BOOLEAN :
          command_line_bmi(w, h, db_ok)
    \/ \E again \in Answers : calculate_another(again)

Spec == Init /\ [][Next]_vars

\* Every handler of the window, over a few input texts.
BrowseNext ==
    \/ \E db_ok \in BOOLEAN : main_gui(db_ok, db_ok, db_ok)
    \/ \E in \in FewInputs, t \in 0..MaxClock, db_ok \in BOOLEAN :
          calculate_bmi_gui(in[1], in[2], in[3], t, db_ok, db_ok, db_ok)
    \/ clear_entries
    \/ \E db_ok \in BOOLEAN : refresh_users(db_ok)
    \/ \E u \in user_combo \cup {user_var}, db_ok \in BOOLEAN :
          load_user_history(u, db_ok)
    \/ \E u \in stats_user_combo \cup {stats_user_var}, db_ok \in BOOLEAN :
          generate_stats(u, db_ok)
    \/ mainloop_returns

BrowseSpec == Init /\ [][BrowseNext]_vars


\* ------------------------------------------- the calculator's functions
\* validate_input, calculate_bmi and classify_bmi applied, one call at a
\* time, to a pair of texts; weight_entry and height_entry hold the
\* arguments, is_valid, message, bmi and category what the calls returned.
FnInit ==
    /\ weight_entry \in WeightTexts
    /\ height_entry \in HeightTexts
    /\ mode = "functions"
    /\ table_exists = FALSE
    /\ store = <<>>
    /\ handler = ""
    /\ username_entry = <<>>
    /\ is_valid = FALSE
    /\ message = ""
    /\ bmi = None
    /\ category = ""
    /\ success = FALSE
    /\ result_text = EmptyResult
    /\ messagebox = NoDialog
    /\ user_combo = {}
    /\ user_var = <<>>
    /\ stats_user_combo = {}
    /\ stats_user_var = <<>>
    /\ history_text = EmptyHistory
    /\ chart = NoChart
    /\ stdout = <<>>

call_validate_input ==
    LET v == validate_input(Str(weight_entry), Str(height_entry))
    IN  /\ mode = "functions"
        /\ handler' = "validate_input"
        /\ is_valid' = v[1]
        /\ message' = v[2]
        /\ UNCHANGED <<database, mode, entries, bmi, category, success, result_text,
                       messagebox, history_tab, stats_tab, stdout>>

call_calculate_bmi ==
    /\ mode = "functions"
    /\ handler' = "calculate_bmi"
    /\ bmi' = calculate_bmi(Str(weight_entry), Str(height_entry))
    /\ category' = ""
    /\ UNCHANGED <<database, mode, entries, is_valid, message, success, result_text,
                   messagebox, history_tab, stats_tab, stdout>>

\* classify_bmi on the value calculate_bmi returned (None < 18.5 raises
\* TypeError: there is no category then).
call_classify_bmi ==
    /\ mode = "functions"
    /\ handler = "calculate_bmi"
    /\ IsFloat(bmi)
    /\ handler' = "classify_bmi"
    /\ category' = classify_bmi(bmi)
    /\ UNCHANGED <<database, mode, entries, is_valid, message, bmi, success,
                   result_text, messagebox, history_tab, stats_tab, stdout>>

FnNext == call_validate_input \/ call_calculate_bmi \/ call_classify_bmi

FnSpec == FnInit /\ [][FnNext]_vars

\* ================================================================ claims
\* The fixed-point form of the decimal n / 10 ** digits.
Decimal(n, digits) == (n * Scale) \div Pow10(digits)

\* The float x is a finite number in (0, max / Scale].
InRange(x, max) == x.k = "num" /\ 0 < x.v /\ x.v <= max

\* The floats are numbers with 0 < weight <= 300 and 0 < height <= 2.5.
WithinLimits(weight, height) ==
    InRange(weight, Decimal(300, 0)) /\ InRange(height, Decimal(25, 1))

\* Both texts are numeric and within the limits.
Acceptable(weight, height) == WithinLimits(ParsedFloat[weight], ParsedFloat[height])

\* b is the hundredth nearest to the quotient weight / height ** 2 of two
\* finite floats (height not zero).
NearestHundredth(b, weight, height) ==
    /\ b.k = "num"
    /\ 2 * Abs(b.v * height.v * height.v - weight.v * Scale * Scale)
          <= height.v * height.v

\* C2 (as claimed): validate_input returns ok exactly when both values are
\* numeric with 0 < weight <= 300 and 0 < height <= 2.5, and otherwise an
\* error with a reason.
C2_ValidateExactlyInRange ==
    handler = "validate_input" =>
        /\ is_valid <=> Acceptable(weight_entry, height_entry)
        /\ ~is_valid => message \in {MsgPositive, MsgWeightHigh, MsgHeightHigh,
                                     MsgNotNumbers}

\* C9: classify_bmi gives Underweight below 18.5, Normal weight from 18.5
\* and below 25, Overweight from 25 and below 30, Obese from 30 on, and one
\* of the four categories for every value calculate_bmi returns.
C9_ClassifyThresholds ==
    handler = "classify_bmi" =>
        /\ category \in {"Underweight", "Normal weight", "Overweight", "Obese"}
        /\ bmi.k = "num" =>
              /\ bmi.v < Decimal(185, 1) => category = "Underweight"
              /\ Decimal(185, 1) <= bmi.v /\ bmi.v < Decimal(25, 0) =>
                    category = "Normal weight"
              /\ Decimal(25, 0) <= bmi.v /\ bmi.v < Decimal(30, 0) => category = "Overweight"
              /\ Decimal(30, 0) <= bmi.v => category = "Obese"
        /\ bmi = Inf(1) => category = "Obese"
        /\ bmi = Inf(-1) => category = "Underweight"

\* A BMI of exactly 18.5 (weight 74, height 2) has been classified, and
\* is Normal weight.
C9_Witness ==
    /\ handler = "classify_bmi"
    /\ bmi = Num(Decimal(185, 1))
    /\ category = "Normal weight"

\* C10: calculate_bmi returns weight / height ** 2 rounded to two decimals
\* when both arguments are numbers and the height is not zero, None when
\* an argument is not numeric or the height is zero; (70, 1.75) gives
\* 22.86, Normal weight, and (50, 1.8) gives 15.43, Underweight.
C10_CalculateRounds ==
    LET w == ParsedFloat[weight_entry]
        h == ParsedFloat[height_entry]
    IN  /\ handler = "calculate_bmi" =>
              /\ w.k = "num" /\ h.k = "num" /\ h.v # 0 => NearestHundredth(bmi, w, h)
              /\ w = ValueError \/ h = ValueError \/ h = Num(0) => bmi = None
              /\ w = Num(Decimal(70, 0)) /\ h = Num(Decimal(175, 2)) =>
                    bmi = Num(Decimal(2286, 2))
              /\ w = Num(Decimal(50, 0)) /\ h = Num(Decimal(18, 1)) =>
                    bmi = Num(Decimal(1543, 2))
        /\ handler = "classify_bmi" =>
              /\ w = Num(Decimal(70, 0)) /\ h = Num(Decimal(175, 2)) =>
                    category = "Normal weight"
              /\ w = Num(Decimal(50, 0)) /\ h = Num(Decimal(18, 1)) =>
                    category = "Underweight"

\* calculate_bmi("70", "1.75") has returned 22.86.
C10_Witness ==
    /\ handler = "calculate_bmi"
    /\ weight_entry = <<"7", "0">>
    /\ height_entry = <<"1", ".", "7", "5">>
    /\ bmi = Num(Decimal(2286, 2))


\* The float a stored or fetched cell stands for.
CellFloat(cell) == float(Fetched(cell))

\* C1 (as claimed): every stored record has weight > 0, height > 0 and
\* bmi = weight / height ** 2.
C1_StoredBmiIsQuotient ==
    \A i \in 1..Len(store) :
        LET w == CellFloat(store[i].weight)
            h == CellFloat(store[i].height)
            b == CellFloat(store[i].bmi)
        IN  /\ w.k = "num" /\ w.v > 0
            /\ h.k = "num" /\ h.v > 0
            /\ b.k = "num" /\ b.v * h.v * h.v = w.v * Scale * Scale

\* C1 (amended): every stored record has weight > 0, height > 0 and bmi
\* equal to weight / height ** 2 rounded to two decimals.
C1_StoredBmiIsRoundedQuotient ==
    \A i \in 1..Len(store) :
        LET w == CellFloat(store[i].weight)
            h == CellFloat(store[i].height)
            b == CellFloat(store[i].bmi)
        IN  /\ w.k = "num" /\ w.v > 0
            /\ h.k = "num" /\ h.v > 0
            /\ NearestHundredth(b, w, h)

\* A record is stored whose bmi is not the exact quotient (70 / 1.75 ** 2
\* is 22.857..., stored as 22.86).
C1_Witness ==
    \E i \in 1..Len(store) :
        /\ CellFloat(store[i].weight) = Num(Decimal(70, 0))
        /\ CellFloat(store[i].height) = Num(Decimal(175, 2))
        /\ CellFloat(store[i].bmi) = Num(Decimal(2286, 2))

IsResultsLine(line) == line.text = "--- Results ---"

\* C3 (as claimed): an input that is not numeric, not positive or above
\* the limits (weight > 300, height > 2.5) gets a validation error and no
\* BMI result, in the window's calculate action and in the command-line
\* loop.
C3_InvalidInputGetsErrorOnly ==
    /\ (/\ handler = "calculate_bmi_gui"
        /\ Stripped[username_entry] # <<>>
        /\ ~Acceptable(weight_entry, height_entry))
          => messagebox[1] = "Input Error" /\ bmi = None
    /\ handler = "command_line_bmi" =>
          \A i \in 1..Len(stdout) :
              IsResultsLine(stdout[i]) => WithinLimits(stdout[i].weight, stdout[i].height)

\* A step in which a calculation produced a BMI result for the user.
ProducedResult ==
    \/ handler' = "calculate_bmi_gui" /\ IsFloat(bmi')
    \/ /\ handler' = "command_line_bmi"
       /\ \E i \in 1..Len(stdout') : IsResultsLine(stdout'[i])

\* store' is store with one row appended.
OneRowAppended ==
    /\ Len(store') = Len(store) + 1
    /\ SubSeq(store', 1, Len(store)) = store

\* C4 (as claimed): every calculation that produces a BMI result, in the
\* window or in the command-line loop, appends one record to the store.
C4_EveryResultAppendsRecord == [][ProducedResult => OneRowAppended]_vars

\* C4 (amended): a calculation in the window that produces a BMI result
\* appends exactly one record, holding that result, when save_to_database
\* returns True and none when it returns False; the command-line loop
\* appends none.
C4_ResultAppendsRecordIffSaved ==
    [][/\ (handler' = "calculate_bmi_gui" /\ IsFloat(bmi')) =>
              IF success'
              THEN /\ OneRowAppended
                   /\ store'[Len(store')].username = Stripped[username_entry']
                   /\ CellFloat(store'[Len(store')].bmi) = bmi'
                   /\ store'[Len(store')].category = category'
              ELSE store' = store
       /\ handler' \in {"command_line_bmi", "calculate_another"} => store' = store
      ]_vars

\* The calculate action has produced a result and saved it.
C4_Witness ==
    /\ handler = "calculate_bmi_gui"
    /\ IsFloat(bmi)
    /\ success
    /\ store # <<>>
    /\ CellFloat(store[Len(store)].bmi) = bmi

\* C5: the store of each state extends the store of the state before: no
\* operation modifies or removes a stored record.
C5_AppendOnly ==
    [][Len(store) <= Len(store') /\ SubSeq(store', 1, Len(store)) = store]_vars

\* Two records are stored and a chart has just been drawn from them.
C5_Witness ==
    /\ Len(store) >= 2
    /\ handler = "generate_stats"
    /\ chart.shown
    /\ Len(chart.dates) >= 2

\* C6 (as claimed): get_user_history returns exactly the user's stored
\* records, and of any two of them the one saved later comes first.
C6_HistoryLaterSavedFirst ==
    (handler = "load_user_history" /\ messagebox = NoDialog /\ stdout = <<>>) =>
        LET lines == history_text.lines
        IN  /\ {lines[i].id : i \in 1..Len(lines)} =
                   RowsOf(store, history_text.username)
            /\ Len(lines) = Cardinality(RowsOf(store, history_text.username))
            /\ \A i, j \in 1..Len(lines) : i < j => lines[i].id > lines[j].id

\* C7: in the window's calculate action, whenever validation and
\* calculation succeed, the BMI and the category are displayed whether or
\* not the save succeeded, and the display says saved exactly when a
\* record was stored.
C7_ResultShownWhetherSaved ==
    [][LET weight == Str(Stripped[weight_entry'])
           height == Str(Stripped[height_entry'])
       IN  (/\ handler' = "calculate_bmi_gui"
            /\ Stripped[username_entry'] # <<>>
            /\ validate_input(weight, height)[1]
            /\ calculate_bmi(weight, height) # None) =>
               /\ messagebox' = NoDialog
               /\ result_text'.shown
               /\ result_text'.username = Stripped[username_entry']
               /\ result_text'.weight = weight.s
               /\ result_text'.height = height.s
               /\ result_text'.bmi = calculate_bmi(weight, height)
               /\ result_text'.category = classify_bmi(calculate_bmi(weight, height))
               /\ result_text'.saved <=> OneRowAppended
      ]_vars

\* A result is on display although its save failed.
C7_Witness ==
    /\ handler = "calculate_bmi_gui"
    /\ is_valid
    /\ bmi.k = "num"
    /\ ~success
    /\ result_text.shown
    /\ result_text.bmi = bmi
    /\ ~result_text.saved

\* The written value and the fetched one are the same number.
SameNumber(written, fetched) == float(written) = float(fetched)

====
